---- MODULE Spec2Model ----
(***************************************************************************)
(* Model of backend/main.py: the booking ledger (table "bookings"), the    *)
(* route handlers create_request, list_requests, approve_request,          *)
(* reject_request, cancel_request and the startup cleanup.                 *)
(*                                                                         *)
(* Strings that the code trims or validates are sequences of one-character *)
(* strings.  An Optional[T] value is None (the empty tuple) or Some(x).     *)
(* Timestamps are whole days; dates are day numbers.                       *)
(***************************************************************************)
EXTENDS Integers, Sequences, FiniteSets, TLC

VARIABLES
    ADMIN_SECRET,   \* the configured secret, read from the environment at import
    bookings,       \* the table: a function from the ids of the stored rows to rows
    nextId,         \* the next primary key the database hands out
    now,            \* datetime.utcnow(), in days
    last,           \* the last completed call: its arguments, outcome and emitted event
    calls           \* the handler invocations in flight (interleaved specification only)

vars == <<ADMIN_SECRET, bookings, nextId, now, last, calls>>

-----------------------------------------------------------------------------
(* Bounds of the model *)

MaxBookings == 2        \* rows ever inserted
MaxDate == 3            \* dates are 1..MaxDate
MaxNow == 16            \* the clock stops here

(* Program constants *)

RETENTION_DAYS == 15

-----------------------------------------------------------------------------
(* Optional values and strings *)

None == << >>
Some(x) == << x >>
IsSome(o) == o # None
Get(o) == o[1]

WS == {" "}

RECURSIVE lstrip(_)
lstrip(s) == IF s # << >> /\ Head(s) \in WS THEN lstrip(Tail(s)) ELSE s

RECURSIVE rstrip(_)
rstrip(s) ==
    IF s # << >> /\ s[Len(s)] \in WS THEN rstrip(SubSeq(s, 1, Len(s) - 1)) ELSE s

\* str.strip()
strip(s) == rstrip(lstrip(s))

\* Python's `x or ""` for an Optional[str]
OrEmpty(o) == IF IsSome(o) /\ Get(o) # << >> THEN Get(o) ELSE << >>

\* Python's `x or None` for an Optional[str]
OrNone(o) == IF IsSome(o) /\ Get(o) # << >> THEN o ELSE None

-----------------------------------------------------------------------------
(* Inputs *)

Dates == 1..MaxDate
OptDates == {None} \cup {Some(d) : d \in Dates}

GoodEmail == <<"a", "@", "b", ".", "c">>
NOTIFY_EMAIL == <<"m", "@", "b", ".", "c">>
DefaultSecret == <<"s">>

Statuses == {"pending", "approved", "rejected", "cancelled"}

\* the request bodies of POST /api/requests
PayloadOf(n, e, s, x, t) ==
    [requester_name |-> n, requester_email |-> e, start_date |-> s, end_date |-> x,
     notes |-> t]

CorePayloads ==
    { PayloadOf(Some(<<"a", " ">>), Some(GoodEmail), Some(s), Some(x), Some(<<"n">>)) :
        s \in Dates, x \in Dates }

\* two adjacent stays and one that overlaps both; one body has no notes
TimePayloads ==
    { PayloadOf(Some(<<"a">>), Some(GoodEmail), Some(1), Some(2), None),
      PayloadOf(Some(<<"a">>), Some(GoodEmail), Some(2), Some(3), Some(<<"n">>)),
      PayloadOf(Some(<<"a">>), Some(GoodEmail), Some(1), Some(3), Some(<<"n">>)) }

AllPayloads ==
    { PayloadOf(n, e, s, x, t) :
        n \in {None, Some(<< >>), Some(<<" ">>), Some(<<" ", "a">>)},
        e \in {Some(<<"a", "@">>), Some(GoodEmail)},
        s \in OptDates, x \in OptDates,
        t \in {Some(<< >>), Some(<<"n">>)} }

\* the X-Admin-Secret headers
CoreSecrets == {Some(<<" ", "s", " ">>), Some(<<"x">>)}
TimeSecrets == {Some(<<"s">>)}
AllSecrets == {None, Some(<< >>), Some(<<"s">>), Some(<<" ", "s", " ">>), Some(<<"x">>)}

\* the values the environment may give ADMIN_SECRET
EnvSecrets == {DefaultSecret, <<"s", " ">>, << >>}

ReqIds == 1..MaxBookings
Reasons == {None, Some(<<"r">>)}

-----------------------------------------------------------------------------
(* Outcomes of a call *)

Outcome(c, d, s) == [code |-> c, detail |-> d, current |-> s]
OK == Outcome(200, "", "")
Unauthorized == Outcome(401, "Unauthorized (bad admin secret)", "")
NotFound_500 == Outcome(500, "Internal Server Error", "")

NotFound == Outcome(404, "Request not found", "")
ValidationError == Outcome(422, "validation error", "")
Conflict == Outcome(409, "Date conflict with an existing approved booking", "")
CannotApprove(s) == Outcome(409, "Cannot approve request in status", s)
CannotReject(s) == Outcome(409, "Cannot reject request in status", s)
CannotCancel(s) == Outcome(409, "Only approved bookings can be cancelled", s)

Call(op) ==
    [op |-> op, req_id |-> 0, secret |-> None, payload |-> None, reason |-> None,
     filter |-> None, outcome |-> OK, result |-> << >>, deleted |-> 0, run |-> 0,
     prior_deleted |-> 0,
     event |-> None, delivery |-> "none"]

Event_none(kind, to, id) == None

\* the mail a handler hands to send_email
Event(kind, to, id) == Some([kind |-> kind, to |-> to, id |-> id])

\* background_tasks.add_task(send_email, ...): the mail is queued, to be sent once
\* the response is out
add_task(call, ev) == [call EXCEPT !.event = ev, !.delivery = "queued"]

send_email_raises(call, ok) ==
    IF ok THEN [call EXCEPT !.delivery = "sent"]
    ELSE [call EXCEPT !.delivery = "failed",
                      !.outcome = Outcome(500, "Internal Server Error", "")]

\* the call once send_email has run: the mail went out, or SMTP raised in the
\* background task, after the response
send_email(call, ok) == [call EXCEPT !.delivery = IF ok THEN "sent" ELSE "failed"]

-----------------------------------------------------------------------------
(* BookingIn: the request body validation *)

Count(s, c) == Cardinality({i \in 1..Len(s) : s[i] = c})

\* EmailStr: one "@", a local part, and a dotted domain with no empty label
IsEmail(s) ==
    /\ Count(s, "@") = 1
    /\ LET at == CHOOSE i \in 1..Len(s) : s[i] = "@"
       IN /\ at > 1
          /\ at < Len(s)
          /\ s[at + 1] # "."
          /\ s[Len(s)] # "."
          /\ \E i \in (at + 1)..Len(s) : s[i] = "."
          /\ \A i \in (at + 1)..(Len(s) - 1) : ~(s[i] = "." /\ s[i + 1] = ".")
          /\ \A i \in 1..Len(s) : s[i] \notin WS

check_range_inverted(v, start) == ~(IsSome(start) /\ v >= Get(start))

\* the field validator of end_date: passes unless start_date was parsed and v <= start
check_range(v, start) == ~(IsSome(start) /\ v <= Get(start))

\* pydantic accepts the body: every required field present and well-formed
BookingIn(p) ==
    /\ IsSome(p.requester_name)
    /\ IsSome(p.requester_email) /\ IsEmail(Get(p.requester_email))
    /\ IsSome(p.start_date)
    /\ IsSome(p.end_date) /\ check_range(Get(p.end_date), p.start_date)

-----------------------------------------------------------------------------
(* Helpers *)

overlaps(a_start, a_end, b_start, b_end) == (a_end > b_start) /\ (b_end > a_start)

\* TRUE when the secret passes
require_admin(secret, configured) == strip(OrEmpty(secret)) = strip(configured)

cleanup_filter_le(row, cutoff) ==
    /\ row.status \in {"cancelled", "rejected"}
    /\ IsSome(row.decision_at)
    /\ Get(row.decision_at) <= cutoff

\* the rows the DELETE of cleanup_old_requests matches (a NULL decision_at never matches)
cleanup_filter(row, cutoff) ==
    /\ row.status \in {"cancelled", "rejected"}
    /\ IsSome(row.decision_at)
    /\ Get(row.decision_at) < cutoff

cleanup_one(db, t) ==
    LET doomed == {i \in DOMAIN db : cleanup_filter(db[i], t - RETENTION_DAYS)}
        keep == IF doomed = {} THEN {}
                ELSE doomed \ {CHOOSE i \in doomed : \A j \in doomed : i <= j}
    IN [i \in (DOMAIN db \ doomed) \cup keep |-> db[i]]

\* the table after the cleanup
cleanup_old_requests(db, t) ==
    LET cutoff == t - RETENTION_DAYS
        doomed == {i \in DOMAIN db : cleanup_filter(db[i], cutoff)}
    IN [i \in DOMAIN db \ doomed |-> db[i]]

\* the row create_request inserts
NewRow(id, p, t) ==
    [id |-> id,
     requester_name |-> strip(Get(p.requester_name)),
     requester_email |-> OrNone(p.requester_email),
     start_date |-> Get(p.start_date),
     end_date |-> Get(p.end_date),
     status |-> "pending",
     notes |-> OrNone(p.notes),
     created_at |-> t,
     decision_at |-> None,
     decided_by |-> None]

approve_status_not_approved(row) == row.status # "approved"
cancel_status_not_cancelled(row) == row.status # "cancelled"

\* the status checks of the three decisions
approve_status_ok(row) == row.status = "pending"
reject_status_ok(row) == row.status = "pending"
cancel_status_ok(row) == row.status = "approved"

Conflicts_start(db, row) ==
    {i \in DOMAIN db :
        /\ db[i].status = "approved"
        /\ db[i].end_date > row.start_date
        /\ db[i].start_date < row.start_date}

Conflicts_end(db, row) ==
    {i \in DOMAIN db :
        /\ db[i].status = "approved"
        /\ db[i].end_date > row.end_date
        /\ db[i].start_date < row.end_date}

Conflicts_not_pending(db, row) ==
    {i \in DOMAIN db :
        /\ db[i].status # "pending"
        /\ db[i].end_date > row.start_date
        /\ db[i].start_date < row.end_date}

\* the conflict query of approve_request
Conflicts(db, row) ==
    {i \in DOMAIN db :
        /\ db[i].status = "approved"
        /\ db[i].end_date > row.start_date
        /\ db[i].start_date < row.end_date}

reject_write_no_by(row, t) ==
    [row EXCEPT !.status = "rejected", !.decision_at = Some(t)]

approve_write_created(row, t) ==
    [row EXCEPT !.status = "approved", !.decision_at = Some(t), !.decided_by = Some("Mom"),
                !.created_at = t]

\* the assignments of the three decisions
approve_write(row, t) ==
    [row EXCEPT !.status = "approved", !.decision_at = Some(t), !.decided_by = Some("Mom")]
reject_write(row, t) ==
    [row EXCEPT !.status = "rejected", !.decision_at = Some(t), !.decided_by = Some("Mom")]
cancel_write(row, reason, t) ==
    [row EXCEPT !.status = "cancelled", !.decision_at = Some(t), !.decided_by = Some("Mom")]

\* the UPDATE ... WHERE id = row.id of db.commit()
Commit(db, row) == [db EXCEPT ![row.id] = row]

Before_id_desc(db, i, j) ==
    \/ db[i].start_date < db[j].start_date
    \/ db[i].start_date = db[j].start_date /\ i >= j

\* ORDER BY start_date ASC, id ASC
Before(db, i, j) ==
    \/ db[i].start_date < db[j].start_date
    \/ db[i].start_date = db[j].start_date /\ i <= j

RECURSIVE OrderBy(_, _)
OrderBy(db, S) ==
    IF S = {} THEN << >>
    ELSE LET m == CHOOSE i \in S : \A j \in S : Before(db, i, j)
         IN <<m>> \o OrderBy(db, S \ {m})

\* the ids list_requests returns
list_requests(db, f) ==
    LET S == IF f.active = Some(TRUE)
                THEN {i \in DOMAIN db : db[i].status \in {"pending", "approved"}}
             ELSE IF IsSome(f.status)
                THEN {i \in DOMAIN db : db[i].status = Get(f.status)}
             ELSE DOMAIN db
    IN OrderBy(db, S)

\* the ids approved_bookings returns
approved_bookings(db) == OrderBy(db, {i \in DOMAIN db : db[i].status = "approved"})

\* the query strings of GET /api/requests
AllFilters ==
    { [status |-> st, active |-> a] :
        st \in {None} \cup {Some(x) : x \in Statuses},
        a \in {None, Some(TRUE), Some(FALSE)} }

CoreFilters ==
    { [status |-> None, active |-> None],
      [status |-> Some("rejected"), active |-> Some(TRUE)],
      [status |-> Some("approved"), active |-> Some(FALSE)] }

-----------------------------------------------------------------------------
(* The handlers, each run to completion *)

Fail(call, outcome) ==
    /\ last' = [call EXCEPT !.outcome = outcome]
    /\ UNCHANGED bookings

\* POST /api/requests
create_request(payload) ==
    LET call == [Call("submit") EXCEPT !.payload = Some(payload)]
    IN /\ nextId <= MaxBookings
       /\ IF BookingIn(payload)
          THEN LET row == NewRow(nextId, payload, now)
               IN /\ bookings' = bookings @@ (nextId :> row)
                  /\ nextId' = nextId + 1
                  /\ last' = add_task([call EXCEPT !.req_id = nextId],
                                       Event("created", Some(NOTIFY_EMAIL), nextId))
          ELSE /\ Fail(call, ValidationError)
               /\ UNCHANGED nextId
       /\ UNCHANGED <<ADMIN_SECRET, now, calls>>

\* GET /api/requests
list_request(f, secret) ==
    LET call == [Call("list") EXCEPT !.filter = Some(f), !.secret = secret]
    IN /\ IF ~require_admin(secret, ADMIN_SECRET)
          THEN Fail(call, Unauthorized)
          ELSE /\ last' = [call EXCEPT !.result = list_requests(bookings, f)]
               /\ UNCHANGED bookings
       /\ UNCHANGED <<ADMIN_SECRET, nextId, now, calls>>

\* GET /api/bookings/approved
list_approved ==
    /\ last' = [Call("list_approved") EXCEPT !.result = approved_bookings(bookings)]
    /\ UNCHANGED <<ADMIN_SECRET, bookings, nextId, now, calls>>

\* POST /api/requests/{req_id}/approve
approve_request(req_id, secret) ==
    LET call == [Call("approve") EXCEPT !.req_id = req_id, !.secret = secret]
    IN /\ IF ~require_admin(secret, ADMIN_SECRET)
          THEN Fail(call, Unauthorized)
          ELSE IF req_id \notin DOMAIN bookings
          THEN Fail(call, NotFound)
          ELSE LET row == bookings[req_id]
               IN IF ~approve_status_ok(row)
                  THEN Fail(call, CannotApprove(row.status))
                  ELSE IF Conflicts(bookings, row) # {}
                  THEN Fail(call, Conflict)
                  ELSE /\ bookings' = Commit(bookings, approve_write(row, now))
                       /\ last' = add_task(call,
                                            Event("approved", row.requester_email, req_id))
       /\ UNCHANGED <<ADMIN_SECRET, nextId, now, calls>>

\* POST /api/requests/{req_id}/reject
reject_request(req_id, secret) ==
    LET call == [Call("reject") EXCEPT !.req_id = req_id, !.secret = secret]
    IN /\ IF ~require_admin(secret, ADMIN_SECRET)
          THEN Fail(call, Unauthorized)
          ELSE IF req_id \notin DOMAIN bookings
          THEN Fail(call, NotFound)
          ELSE LET row == bookings[req_id]
               IN IF ~reject_status_ok(row)
                  THEN Fail(call, CannotReject(row.status))
                  ELSE /\ bookings' = Commit(bookings, reject_write(row, now))
                       /\ last' = add_task(call,
                                            Event("rejected", row.requester_email, req_id))
       /\ UNCHANGED <<ADMIN_SECRET, nextId, now, calls>>

\* POST /api/requests/{req_id}/cancel; the route declares no body, so a reason
\* sent with the request never reaches the handler
cancel_request(req_id, reason, secret) ==
    LET call == [Call("cancel") EXCEPT !.req_id = req_id, !.secret = secret,
                                       !.reason = reason]
    IN /\ IF ~require_admin(secret, ADMIN_SECRET)
          THEN Fail(call, Unauthorized)
          ELSE IF req_id \notin DOMAIN bookings
          THEN Fail(call, NotFound)
          ELSE LET row == bookings[req_id]
               IN IF ~cancel_status_ok(row)
                  THEN Fail(call, CannotCancel(row.status))
                  ELSE /\ bookings' = Commit(bookings, cancel_write(row, reason, now))
                       /\ last' = add_task(call,
                                            Event("cancelled", row.requester_email, req_id))
       /\ UNCHANGED <<ADMIN_SECRET, nextId, now, calls>>

\* the startup hook: one run of cleanup_old_requests.  last.deleted counts the rows
\* it removed; last.run is 2 for a run that directly follows another run, and
\* last.prior_deleted is then what that run removed
startup_cleanup ==
    /\ bookings' = cleanup_old_requests(bookings, now)
    /\ last' = [Call("cleanup") EXCEPT
                  !.deleted = Cardinality(DOMAIN bookings) - Cardinality(DOMAIN bookings'),
                  !.run = IF last.op = "cleanup" THEN 2 ELSE 1,
                  !.prior_deleted = IF last.op = "cleanup" THEN last.deleted ELSE 0]
    /\ UNCHANGED <<ADMIN_SECRET, nextId, now, calls>>

\* time passes between two calls
Tick ==
    /\ \E d \in {RETENTION_DAYS, RETENTION_DAYS + 1} :
          /\ now + d <= MaxNow
          /\ now' = now + d
    /\ last' = Call("tick")
    /\ UNCHANGED <<ADMIN_SECRET, bookings, nextId, calls>>

\* the background task of the last call runs
run_background ==
    /\ last.delivery = "queued"
    /\ \E ok \in BOOLEAN : last' = send_email(last, ok)
    /\ UNCHANGED <<ADMIN_SECRET, bookings, nextId, now, calls>>

Submit(P) == \E p \in P : create_request(p)
List(F, S) == \E f \in F, s \in S : list_request(f, s)
Approve(S) == \E i \in ReqIds, s \in S : approve_request(i, s)
Reject(S) == \E i \in ReqIds, s \in S : reject_request(i, s)
Cancel(R, S) == \E i \in ReqIds, r \in R, s \in S : cancel_request(i, r, s)

-----------------------------------------------------------------------------
(* Specifications *)

Procs == {1, 2}
Idle == [pc |-> "idle", op |-> "", req_id |-> 0, row |-> None, outcome |-> OK]

InitLedger ==
    /\ bookings = << >>
    /\ nextId = 1
    /\ now = 0
    /\ last = Call("start")
    /\ calls = [p \in Procs |-> Idle]

\* the service with the default secret, one call at a time
Init == ADMIN_SECRET = DefaultSecret /\ InitLedger

\* the decisions over every date range, at one instant
Next ==
    \/ Submit(CorePayloads)
    \/ Approve(CoreSecrets)
    \/ Reject(CoreSecrets)
    \/ Cancel({None}, CoreSecrets)

Spec == Init /\ [][Next]_vars

\* the decisions and the cleanup as time passes
NextTime ==
    \/ Submit(TimePayloads)
    \/ Approve(TimeSecrets)
    \/ Reject(TimeSecrets)
    \/ Cancel({None}, TimeSecrets)
    \/ startup_cleanup
    \/ Tick

TimeSpec == Init /\ [][NextTime]_vars

\* the service with any configured secret, any header and the read-only routes,
\* at one instant
InitEnv == ADMIN_SECRET \in EnvSecrets /\ InitLedger

NextEnv ==
    \/ Submit(CorePayloads)
    \/ List(CoreFilters, AllSecrets)
    \/ list_approved
    \/ Approve(AllSecrets)
    \/ Reject(AllSecrets)
    \/ Cancel(Reasons, AllSecrets)

EnvSpec == InitEnv /\ [][NextEnv]_vars

\* the decisions and the two listings with every query string, at one instant
NextList ==
    \/ Submit(CorePayloads)
    \/ Approve(TimeSecrets)
    \/ Reject(TimeSecrets)
    \/ Cancel({None}, TimeSecrets)
    \/ List(AllFilters, TimeSecrets)
    \/ list_approved

ListSpec == Init /\ [][NextList]_vars

\* the decisions at one instant, each followed or not by its background task
NextNotify ==
    \/ Submit(CorePayloads)
    \/ Approve(CoreSecrets)
    \/ Reject(CoreSecrets)
    \/ Cancel({None}, CoreSecrets)
    \/ run_background

NotifySpec == Init /\ [][NextNotify]_vars

\* the submissions alone, with every request body
NextSubmit == Submit(AllPayloads)

SubmitSpec == Init /\ [][NextSubmit]_vars

-----------------------------------------------------------------------------
(* approve_request and reject_request step by step: each invocation has its own session, and the   *)
(* read of the row, the conflict query and the commit are separate statements   *)
(* on the database that another invocation's statements may come between.        *)

Done(p, outcome) ==
    calls' = [calls EXCEPT ![p] = [@ EXCEPT !.pc = "done", !.outcome = outcome]]

\* require_admin, db.get and the status check
approve_get(p, req_id, secret) ==
    /\ calls[p].pc = "idle"
    /\ IF ~require_admin(secret, ADMIN_SECRET)
       THEN Done(p, Unauthorized)
       ELSE IF req_id \notin DOMAIN bookings
       THEN Done(p, NotFound)
       ELSE LET row == bookings[req_id]
            IN IF ~approve_status_ok(row)
               THEN Done(p, CannotApprove(row.status))
               ELSE calls' = [calls EXCEPT ![p] = [@ EXCEPT !.pc = "query",
                                                           !.op = "approve",
                                                           !.req_id = req_id,
                                                           !.row = Some(row)]]
    /\ UNCHANGED <<ADMIN_SECRET, bookings, nextId, now, last>>

\* the conflict query, on the table as committed by now
approve_query(p) ==
    /\ calls[p].pc = "query"
    /\ IF Conflicts(bookings, Get(calls[p].row)) # {}
       THEN Done(p, Conflict)
       ELSE calls' = [calls EXCEPT ![p] = [@ EXCEPT !.pc = "commit"]]
    /\ UNCHANGED <<ADMIN_SECRET, bookings, nextId, now, last>>

\* the assignments and db.commit()
approve_commit(p) ==
    /\ calls[p].pc = "commit" /\ calls[p].op = "approve"
    /\ bookings' = Commit(bookings, approve_write(Get(calls[p].row), now))
    /\ Done(p, OK)
    /\ UNCHANGED <<ADMIN_SECRET, nextId, now, last>>

\* reject_request: require_admin, db.get and the status check
reject_get(p, req_id, secret) ==
    /\ calls[p].pc = "idle"
    /\ IF ~require_admin(secret, ADMIN_SECRET)
       THEN Done(p, Unauthorized)
       ELSE IF req_id \notin DOMAIN bookings
       THEN Done(p, NotFound)
       ELSE LET row == bookings[req_id]
            IN IF ~reject_status_ok(row)
               THEN Done(p, CannotReject(row.status))
               ELSE calls' = [calls EXCEPT ![p] = [@ EXCEPT !.pc = "commit",
                                                           !.op = "reject",
                                                           !.req_id = req_id,
                                                           !.row = Some(row)]]
    /\ UNCHANGED <<ADMIN_SECRET, bookings, nextId, now, last>>

\* reject_request: the assignments and db.commit()
reject_commit(p) ==
    /\ calls[p].pc = "commit" /\ calls[p].op = "reject"
    /\ bookings' = Commit(bookings, reject_write(Get(calls[p].row), now))
    /\ Done(p, OK)
    /\ UNCHANGED <<ADMIN_SECRET, nextId, now, last>>

\* the response is sent; the worker is free again
call_return(p) ==
    /\ calls[p].pc = "done"
    /\ calls' = [calls EXCEPT ![p] = Idle]
    /\ UNCHANGED <<ADMIN_SECRET, bookings, nextId, now, last>>

NextConc ==
    \/ Submit(CorePayloads)
    \/ \E p \in Procs, i \in ReqIds, s \in CoreSecrets : approve_get(p, i, s)
    \/ \E p \in Procs : approve_query(p)
    \/ \E p \in Procs : approve_commit(p)
    \/ \E p \in Procs, i \in ReqIds, s \in CoreSecrets : reject_get(p, i, s)
    \/ \E p \in Procs : reject_commit(p)
    \/ \E p \in Procs : call_return(p)

ConcSpec == Init /\ [][NextConc]_vars

-----------------------------------------------------------------------------
(* Properties *)

Rows == {bookings[i] : i \in DOMAIN bookings}

\* the header is present and equals the configured secret once both are trimmed
SecretMatches(secret) == IsSome(secret) /\ strip(Get(secret)) = strip(ADMIN_SECRET)

Disjoint(a, b) == a.end_date <= b.start_date \/ b.end_date <= a.start_date

\* C1: with one call at a time, any two distinct approved bookings are disjoint:
\* one ends no later than the other starts.
C1_ApprovedDisjoint ==
    \A a, b \in Rows : a # b /\ a.status = "approved" /\ b.status = "approved"
                         => Disjoint(a, b)

C1_Witness ==
    /\ last.op = "approve" /\ last.outcome = OK
    /\ \E a, b \in Rows : a # b /\ a.status = "approved" /\ b.status = "approved"

\* C3: a stored booking changes status only pending->approved by approve,
\* pending->rejected by reject and approved->cancelled by cancel; a row disappears
\* only when cleanup deletes a rejected or cancelled one; a row appears only as a
\* pending one under a fresh id, so nothing ever returns to pending.
LegalChange(s, t, op) ==
    \/ s = t
    \/ s = "pending" /\ t = "approved" /\ op = "approve"
    \/ s = "pending" /\ t = "rejected" /\ op = "reject"
    \/ s = "approved" /\ t = "cancelled" /\ op = "cancel"

OverlapsApproved(db, i) ==
    \E j \in DOMAIN db :
        /\ db[j].status = "approved"
        /\ db[j].end_date > db[i].start_date
        /\ db[i].end_date > db[j].start_date

C4_ConflictRefused ==
    [][ ( /\ last'.op = "approve"
          /\ SecretMatches(last'.secret)
          /\ last'.req_id \in DOMAIN bookings
          /\ bookings[last'.req_id].status = "pending"
          /\ OverlapsApproved(bookings, last'.req_id) )
        => /\ last'.outcome = Conflict
           /\ last'.event = None
           /\ bookings' = bookings
           /\ nextId' = nextId ]_vars

C4_Witness ==
    /\ last.op = "approve" /\ last.outcome = Conflict
    /\ last.req_id \in DOMAIN bookings
    /\ bookings[last.req_id].status = "pending"
    /\ OverlapsApproved(bookings, last.req_id)

\* C5: an authorized approve or reject of a stored booking that is not pending, and
\* an authorized cancel of a stored booking that is not approved, fails with the
\* handler's invalid-transition error, which names the current status, and changes
\* nothing in the ledger.
C5_InvalidTransition ==
    [][ \A op \in {"approve", "reject", "cancel"} :
          ( /\ last'.op = op
            /\ SecretMatches(last'.secret)
            /\ last'.req_id \in DOMAIN bookings
            /\ bookings[last'.req_id].status # (IF op = "cancel" THEN "approved"
                                                                 ELSE "pending") )
          => /\ last'.outcome.code = 409
             /\ last'.outcome.detail =
                  (IF op = "approve" THEN "Cannot approve request in status"
                   ELSE IF op = "reject" THEN "Cannot reject request in status"
                   ELSE "Only approved bookings can be cancelled")
             /\ last'.outcome.current = bookings[last'.req_id].status
             /\ bookings' = bookings
             /\ nextId' = nextId ]_vars

C5_Witness ==
    /\ last.op = "approve"
    /\ last.outcome = CannotApprove("cancelled")
    /\ bookings[last.req_id].status = "cancelled"

\* C2: two interleaved approve calls on two different pending requests whose date
\* ranges overlap: exactly one succeeds, the other fails with Conflict, and the two
\* requests are never both approved.
BothDecided(p, q) ==
    /\ calls[p].pc = "done" /\ calls[q].pc = "done"
    /\ IsSome(calls[p].row) /\ IsSome(calls[q].row)
    /\ calls[p].req_id # calls[q].req_id
    /\ ~Disjoint(Get(calls[p].row), Get(calls[q].row))

C2_ExactlyOneApproved ==
    \A p, q \in Procs :
        BothDecided(p, q)
        => /\ \/ calls[p].outcome = OK /\ calls[q].outcome = Conflict
              \/ calls[p].outcome = Conflict /\ calls[q].outcome = OK
           /\ ~( /\ bookings[calls[p].req_id].status = "approved"
                 /\ bookings[calls[q].req_id].status = "approved" )

\* C6: submit fails exactly when end_date <= start_date or a required field is
\* missing, empty or malformed (an empty or whitespace-only name included); a failed
\* submit stores nothing and a successful one stores exactly one new booking.
BadBody(p) ==
    \/ ~IsSome(p.requester_name)
    \/ strip(Get(p.requester_name)) = << >>
    \/ ~IsSome(p.requester_email)
    \/ ~IsEmail(Get(p.requester_email))
    \/ ~IsSome(p.start_date)
    \/ ~IsSome(p.end_date)
    \/ Get(p.end_date) <= Get(p.start_date)

C6_SubmitFailsIffBad ==
    [][ last'.op = "submit"
        => /\ (last'.outcome # OK) <=> BadBody(Get(last'.payload))
           /\ last'.outcome # OK => bookings' = bookings
           /\ last'.outcome = OK =>
                /\ Cardinality(DOMAIN bookings' \ DOMAIN bookings) = 1
                /\ \A i \in DOMAIN bookings : i \in DOMAIN bookings'
                                                /\ bookings'[i] = bookings[i] ]_vars

\* C7: a successful cancel with a non-empty reason leaves the booking cancelled, with
\* decision_at set, and with notes made of the notes it had before followed by text
\* that contains the reason.
HasAfter(text, k, r) ==
    \E j \in (k + 1)..(Len(text) - Len(r) + 1) : SubSeq(text, j, j + Len(r) - 1) = r

C7_CancelAppendsReason ==
    [][ ( /\ last'.op = "cancel" /\ last'.outcome = OK
          /\ IsSome(last'.reason) /\ Get(last'.reason) # << >> )
        => LET old == OrEmpty(bookings[last'.req_id].notes)
               new == bookings'[last'.req_id]
           IN /\ new.status = "cancelled"
              /\ IsSome(new.decision_at)
              /\ IsSome(new.notes)
              /\ Len(Get(new.notes)) >= Len(old)
              /\ SubSeq(Get(new.notes), 1, Len(old)) = old
              /\ HasAfter(Get(new.notes), Len(old), Get(last'.reason)) ]_vars

\* C8: cleanup deletes exactly the rejected and cancelled bookings decided more than
\* 15 days before now, and keeps every other booking as it was.
Expired(row, t) ==
    /\ row.status \in {"cancelled", "rejected"}
    /\ IsSome(row.decision_at)
    /\ t - Get(row.decision_at) > 15

C8_CleanupDeletesExactly ==
    [][ last'.op = "cleanup"
        => /\ DOMAIN bookings' = {i \in DOMAIN bookings : ~Expired(bookings[i], now)}
           /\ \A i \in DOMAIN bookings' : bookings'[i] = bookings[i]
           /\ last'.deleted = Cardinality({i \in DOMAIN bookings : Expired(bookings[i], now)})
      ]_vars

C8_Witness ==
    /\ last.op = "cleanup" /\ last.deleted >= 1
    /\ \E a \in Rows : a.status \in {"cancelled", "rejected"}

\* C9: a cleanup that directly follows a cleanup, with the clock unchanged, deletes
\* nothing and leaves the ledger as the first run left it.
C9_CleanupIdempotent ==
    [][ (last.op = "cleanup" /\ last'.op = "cleanup" /\ now' = now)
        => /\ bookings' = bookings
           /\ last'.deleted = 0 ]_vars

C9_Witness ==
    /\ last.op = "cleanup" /\ last.run = 2
    /\ last.prior_deleted >= 1 /\ last.deleted = 0

\* C10: approve, reject, cancel and list with a header that is missing, or that
\* differs from the configured secret once both are trimmed, fail with Unauthorized
\* (not NotFound, InvalidTransition or Conflict) and leave the ledger unchanged.
C10_BadSecretUnauthorized ==
    [][ ( /\ last'.op \in {"approve", "reject", "cancel", "list"}
          /\ ~SecretMatches(last'.secret) )
        => /\ last'.outcome = Unauthorized
           /\ bookings' = bookings
           /\ nextId' = nextId ]_vars

\* C11: the outcome approve gives for a date overlap is of another error kind than
\* the outcome approve, reject and cancel give when the status precondition fails:
\* the error code alone tells the two apart.
InvalidTransitionCodes ==
    {CannotApprove(s).code : s \in Statuses} \cup {CannotReject(s).code : s \in Statuses}
        \cup {CannotCancel(s).code : s \in Statuses}

C11_ConflictCodeDistinct ==
    (last.op = "approve" /\ last.outcome = Conflict)
        => last.outcome.code \notin InvalidTransitionCodes

\* C12: a stored booking has decision_at and decided_by both null exactly when it is
\* pending (and both set otherwise); every successful approve, reject and cancel
\* sets both on its target, and submit stores the new booking with both null.
DecisionFieldsOk(row) ==
    IF row.status = "pending"
    THEN row.decision_at = None /\ row.decided_by = None
    ELSE IsSome(row.decision_at) /\ IsSome(row.decided_by)

C12_DecisionFields ==
    [][ /\ \A i \in DOMAIN bookings' : DecisionFieldsOk(bookings'[i])
        /\ (last'.op \in {"approve", "reject", "cancel"} /\ last'.outcome = OK)
             => /\ bookings'[last'.req_id].decision_at = Some(now)
                /\ IsSome(bookings'[last'.req_id].decided_by)
        /\ (last'.op = "submit" /\ last'.outcome = OK)
             => /\ bookings'[last'.req_id].decision_at = None
                /\ bookings'[last'.req_id].decided_by = None ]_vars

C12_Witness ==
    /\ \E a \in Rows : a.status = "pending" /\ a.decision_at = None
    /\ \E a \in Rows : a.status = "cancelled" /\ IsSome(a.decided_by)
    /\ last.op = "cancel" /\ last.outcome = OK

\* C13: a submit with a valid body succeeds whatever is stored: it adds one pending
\* booking with the submitted dates under a fresh id, makes no conflict check and
\* changes no stored booking, so overlapping requests coexist.
C13_SubmitNeverConflicts ==
    [][ (last'.op = "submit" /\ ~BadBody(Get(last'.payload)))
        => LET p == Get(last'.payload)
               id == last'.req_id
           IN /\ last'.outcome = OK
              /\ id \notin DOMAIN bookings
              /\ DOMAIN bookings' = DOMAIN bookings \cup {id}
              /\ bookings'[id].status = "pending"
              /\ bookings'[id].start_date = Get(p.start_date)
              /\ bookings'[id].end_date = Get(p.end_date)
              /\ bookings'[id].created_at = now
              /\ \A i \in DOMAIN bookings : bookings'[i] = bookings[i] ]_vars

C13_Witness ==
    /\ last.op = "submit" /\ last.outcome = OK
    /\ bookings[last.req_id].status = "pending"
    /\ \E a \in Rows : /\ a.id # last.req_id
                       /\ a.status = "approved"
                       /\ ~Disjoint(a, bookings[last.req_id])

\* C14: an authorized list with active=true (and no status filter) returns exactly
\* the pending and approved bookings; with a status filter s (and active not true)
\* exactly the bookings of status s; list_approved exactly the approved ones; every
\* result is in ascending start_date order, ties in ascending id order.  (With
\* active=true the handler does not look at the status filter.)
WithStatus(S) == {i \in DOMAIN bookings : bookings[i].status \in S}

Ordered(ids) ==
    \A k \in 1..(Len(ids) - 1) :
        LET a == bookings[ids[k]]
            b == bookings[ids[k + 1]]
        IN \/ a.start_date < b.start_date
           \/ a.start_date = b.start_date /\ a.id < b.id

Lists(ids, S) ==
    /\ {ids[k] : k \in 1..Len(ids)} = S
    /\ Len(ids) = Cardinality(S)
    /\ Ordered(ids)

KindOf(op) ==
    CASE op = "submit" -> "created"
      [] op = "approve" -> "approved"
      [] op = "reject" -> "rejected"
      [] op = "cancel" -> "cancelled"

StatusAfter(op) == IF op = "submit" THEN "pending" ELSE KindOf(op)

Mutating == {"submit", "approve", "reject", "cancel"}

C15_OneEventAfterCommit ==
    [][ /\ (last'.op \in Mutating /\ last'.delivery \in {"none", "queued"})
             => IF last'.outcome = OK
                THEN /\ IsSome(last'.event)
                     /\ Get(last'.event).kind = KindOf(last'.op)
                     /\ Get(last'.event).id = last'.req_id
                     /\ last'.delivery = "queued"
                     /\ bookings'[last'.req_id].status = StatusAfter(last'.op)
                ELSE /\ last'.event = None
                     /\ last'.delivery = "none"
                     /\ bookings' = bookings
        /\ last'.delivery \in {"sent", "failed"}
             => /\ last.delivery = "queued"
                /\ last.outcome = OK
                /\ last'.event = last.event
                /\ bookings[last.req_id].status = StatusAfter(last.op) ]_vars

C15_Witness ==
    /\ last.op = "cancel" /\ last.outcome = OK /\ last.delivery = "sent"
    /\ Get(last.event).kind = "cancelled"

\* C16: when the delivery of a mail fails, nothing in the ledger changes and the
\* call that queued it keeps its successful outcome.
C16_DeliveryFailureHarmless ==
    [][ last'.delivery = "failed"
        => /\ bookings' = bookings
           /\ nextId' = nextId
           /\ last'.outcome = OK
           /\ last'.op = last.op /\ last'.req_id = last.req_id
           /\ bookings'[last'.req_id].status = StatusAfter(last'.op) ]_vars

C16_Witness ==
    /\ last.delivery = "failed" /\ last.op = "approve" /\ last.outcome = OK
    /\ bookings[last.req_id].status = "approved"
    /\ IsSome(bookings[last.req_id].decision_at)

\* C17: two interleaved decisions on the same pending request (an approve and a
\* reject, or two approves) that both read it as pending: at most one succeeds, and
\* the other fails with the invalid-transition error.
SameRowDecided(p, q) ==
    /\ p # q
    /\ calls[p].op = "approve" \/ calls[q].op = "approve"
    /\ calls[p].pc = "done" /\ calls[q].pc = "done"
    /\ IsSome(calls[p].row) /\ IsSome(calls[q].row)
    /\ calls[p].req_id = calls[q].req_id

InvalidTransitionDetails ==
    {"Cannot approve request in status", "Cannot reject request in status",
     "Only approved bookings can be cancelled"}

C17_OneDecisionWins ==
    \A p, q \in Procs :
        SameRowDecided(p, q)
        => /\ ~(calls[p].outcome = OK /\ calls[q].outcome = OK)
           /\ calls[p].outcome = OK => calls[q].outcome.detail \in InvalidTransitionDetails

\* C18: id, requester_name, requester_email, start_date, end_date and created_at of
\* a stored booking never change; a successful approve or reject changes only status,
\* decision_at and decided_by of its target, a successful cancel only those and
\* possibly notes, and every other booking is left as it was.
SameIdentity(a, b) ==
    /\ a.id = b.id
    /\ a.requester_name = b.requester_name
    /\ a.requester_email = b.requester_email
    /\ a.start_date = b.start_date
    /\ a.end_date = b.end_date
    /\ a.created_at = b.created_at

C18_FrameOfDecisions ==
    [][ /\ \A i \in DOMAIN bookings \cap DOMAIN bookings' :
              SameIdentity(bookings[i], bookings'[i])
        /\ (last'.op \in {"approve", "reject", "cancel"} /\ last'.outcome = OK)
             => /\ DOMAIN bookings' = DOMAIN bookings
                /\ \A i \in DOMAIN bookings \ {last'.req_id} : bookings'[i] = bookings[i]
                /\ last'.op # "cancel"
                     => bookings'[last'.req_id].notes = bookings[last'.req_id].notes ]_vars

C18_Witness ==
    /\ last.op = "approve" /\ last.outcome = OK
    /\ bookings[last.req_id].created_at < now
    /\ bookings[last.req_id].decision_at = Some(now)
    /\ \E i \in DOMAIN bookings : i # last.req_id

\* C19: an authorized approve, reject or cancel of an id that is not stored (never
\* created, or deleted by cleanup) answers 404 "Request not found", whatever else is
\* stored, creates no booking and changes nothing.
C19_UnknownIdNotFound ==
    [][ ( /\ last'.op \in {"approve", "reject", "cancel"}
          /\ SecretMatches(last'.secret)
          /\ last'.req_id \notin DOMAIN bookings )
        => /\ last'.outcome.code = 404
           /\ last'.outcome.detail = "Request not found"
           /\ last'.event = None
           /\ bookings' = bookings
           /\ nextId' = nextId ]_vars

C19_Witness ==
    /\ last.op \in {"approve", "reject", "cancel"}
    /\ last.outcome.code = 404
    /\ last.req_id < nextId
    /\ last.req_id \notin DOMAIN bookings
    /\ \E a \in Rows : a.status = "approved"

\* C20: an authorized approve of a stored pending request that overlaps no approved
\* booking succeeds, whatever cancelled, rejected or pending bookings overlap it and
\* whatever was answered for it before; an approve refused for a date conflict
\* leaves the request pending.
C20_ConflictNotPermanent ==
    [][ /\ ( /\ last'.op = "approve"
             /\ SecretMatches(last'.secret)
             /\ last'.req_id \in DOMAIN bookings
             /\ bookings[last'.req_id].status = "pending"
             /\ ~OverlapsApproved(bookings, last'.req_id) )
           => /\ last'.outcome = OK
              /\ bookings'[last'.req_id].status = "approved"
        /\ (last'.op = "approve" /\ last'.outcome = Conflict)
           => bookings'[last'.req_id].status = "pending" ]_vars

C20_Witness ==
    /\ last.op = "approve" /\ last.outcome = OK
    /\ \E i \in DOMAIN bookings :
          /\ i # last.req_id
          /\ bookings[i].status = "cancelled"
          /\ overlaps(bookings[i].start_date, bookings[i].end_date,
                      bookings[last.req_id].start_date, bookings[last.req_id].end_date)

====
